---- MODULE Spec2Model ----
(***************************************************************************)
(* Model of the Brightcove -> S3 migration scripts:                        *)
(*   upload-to-s3.ts   (src/unnamed/part_003, lines 45-414)                *)
(*   extract-missing.ts (src/unnamed/part_003, lines 1-43)                 *)
(*   getBestMp4Source   (src/src/index.ts, lines 75-86)                    *)
(*                                                                         *)
(* The upload run is a state machine: main() and up to CONCURRENCY         *)
(* uploadWithRetry workflows, each suspended at one of its awaits.  An     *)
(* action is the code that runs between two awaits (JavaScript runs it     *)
(* without interleaving).  The pure functions (rendition selection,        *)
(* transfer classification, missing-report derivation) are operators and   *)
(* have their own small specifications that draw the inputs in Init.       *)
(***************************************************************************)
EXTENDS Integers, Sequences, FiniteSets, TLC

VARIABLES
    (* ---- files ---- *)
    videoSources,        \* video_sources.json, a file holding a sequence of entries
    checkpointFile,      \* upload_checkpoint.json, a file holding the completed array
    errorsFile,          \* upload_errors.json, a file holding the errors array
    (* ---- main() ---- *)
    mainPc,              \* where main() is suspended
    exitCode,            \* process exit code, NoExit while running
    pending,             \* main: pending (sequence of video ids)
    batchStart,          \* main: loop variable i (0-based)
    completed,           \* main: completed (a JS Set: insertion-ordered, no duplicates)
    errors,              \* main: errors
    successCount,        \* main: successCount
    errorCount,          \* main: errorCount
    checkpointLock,      \* module variable checkpointLock
    (* ---- token ---- *)
    accessToken,         \* module variable accessToken (0 is the initial "")
    tokenRefreshPromise, \* module variable tokenRefreshPromise (NoPromise is null)
    outstanding,         \* credential requests sent whose promise has not settled
    credBody,            \* those of them answered ok whose body is being read
    credReqs,            \* number of credential requests sent so far
    expiredUpTo,         \* environment: tokens <= expiredUpTo are expired
    (* ---- workflows ---- *)
    wf,                  \* slot -> state of the uploadWithRetry call of the batch
    (* ---- bookkeeping for the properties ---- *)
    budget,              \* environment: abnormal answers it may still give
    loaded,              \* the completed set as returned by loadCheckpoint
    batchNo,             \* number of the batch being processed (1-based)
    savedBatches,        \* number of checkpoint writes finished
    succeeded,           \* ids whose workflow result was folded in as a success
    started,             \* ids uploadWithRetry was called with, in call order
    abortCause,          \* what made main() reject, NULL while it has not
    refreshLog,          \* for every credential request after startup: the token whose 401 caused it
    obs401,              \* tokens for which some workflow observed a 401, one entry per observation
    (* ---- pure-function specifications ---- *)
    input,               \* the argument drawn in Init
    output,              \* the value computed from it: NotYet, then Computed(value)
    (* ---- concurrent saveCheckpoint calls ---- *)
    savers               \* caller -> state of its saveCheckpoint call

runVars == <<videoSources, checkpointFile, errorsFile, mainPc, exitCode, pending,
             batchStart, completed, errors, successCount, errorCount, checkpointLock,
             accessToken, tokenRefreshPromise, outstanding, credBody, credReqs,
             expiredUpTo, wf, budget, loaded, batchNo, savedBatches, succeeded, started, abortCause,
             refreshLog, obs401>>

vars == <<runVars, input, output, savers>>

(***************************************************************************)
(* Bounds of the model                                                     *)
(***************************************************************************)
\* longest video_sources.json of the general specification
MaxLen == 2
\* entries beyond one full batch in the wide specification
MaxExtra == 1
\* the disturbance the environment may cause in a run: an abnormal answer to a
\* workflow of a batch of m workflows takes m from it
MaxFaults == 5
\* longest rendition list drawn for the selection
MaxRenditions == 3
\* longest video_sources / upload_errors list drawn for the missing report
MaxReport == 2
\* most saveCheckpoint calls made at the same time
MaxSavers == 2

(***************************************************************************)
(* Program constants                                                       *)
(***************************************************************************)
CONCURRENCY == 5
\* getFreshVideoUrl(videoId, retries = 3)
DefaultRetries == 3
\* uploadWithRetry(videoId, maxRetries = 2)
DefaultMaxRetries == 2

NULL == "null"
\* the output of a pure function before and after it is computed
NotYet == [done |-> FALSE, value |-> <<>>]
Computed(value) == [done |-> TRUE, value |-> value]
\* a file: absent, not parsable as JSON, or holding the parsed value data
AbsentFile == [state |-> "absent", data |-> <<>>]
CorruptFile == [state |-> "corrupt", data |-> <<>>]
File(data) == [state |-> "ok", data |-> data]
NoPromise == 0
NoExit == -1
\* an undefined height / width of a rendition
Missing == -1

(***************************************************************************)
(* Helpers on sequences                                                    *)
(***************************************************************************)
Range(s) == { s[i] : i \in 1..Len(s) }

\* Set.prototype.add on an insertion-ordered set
SetAdd(s, x) == IF x \in Range(s) THEN s ELSE Append(s, x)

RECURSIVE SetFrom(_)
\* new Set(array): first occurrences, in order
SetFrom(a) ==
    IF a = <<>> THEN <<>>
    ELSE SetAdd(SetFrom(SubSeq(a, 1, Len(a) - 1)), a[Len(a)])

\* all sequences over S of length at most n
SeqsUpTo(S, n) == UNION { [1..k -> S] : k \in 0..n }

(***************************************************************************)
(* Rendition selection: getFreshVideoUrl lines 157-169, the same code as   *)
(* getBestMp4Source of src/index.ts.                                       *)
(* A rendition is [container, src, width, height]; src is <<scheme, n>>,   *)
(* the URL cut after its scheme ("https://" or "http://").                 *)
(***************************************************************************)
\* s.src.startsWith("https://")
StartsWithHttps(src) == src[1] = "https://"

\* s.container === "MP4" && s.src.startsWith("https://")
IsMp4Https(s) == s.container = "MP4" /\ StartsWithHttps(s.src)

\* (x.height || 0): undefined and 0 both count 0
HeightOr0(s) == IF s.height = Missing THEN 0 ELSE s.height

\* the comparator (a, b) => (b.height || 0) - (a.height || 0)
CompareHeightAsc(a, b) == HeightOr0(a) - HeightOr0(b)
CompareHeight(a, b) == HeightOr0(b) - HeightOr0(a)

RECURSIVE InsertByHeight(_, _)
\* x put behind every entry the comparator does not order after it (stable)
InsertByHeight(sorted, x) ==
    IF sorted = <<>> THEN <<x>>
    ELSE IF CompareHeight(sorted[1], x) > 0 THEN <<x>> \o sorted
    ELSE <<sorted[1]>> \o InsertByHeight(Tail(sorted), x)

RECURSIVE SortByHeight(_)
\* mp4Sources.sort(cmp): Array.prototype.sort is stable (ES2019)
SortByHeight(s) ==
    IF s = <<>> THEN <<>>
    ELSE InsertByHeight(SortByHeight(SubSeq(s, 1, Len(s) - 1)), s[Len(s)])

\* null, as a rendition and as a resolved source
NoRendition == [container |-> "", src |-> <<>>, width |-> Missing, height |-> Missing]
NotFound == [url |-> <<>>, resolution |-> <<>>]

\* getBestMp4Source of src/index.ts (lines 158-165 of getFreshVideoUrl are the
\* same statements): the best rendition, or null
getBestMp4Source(sources) ==
    LET mp4Sources == SelectSeq(sources, IsMp4Https)
    IN  IF Len(mp4Sources) = 0 THEN NoRendition ELSE SortByHeight(mp4Sources)[1]

\* lines 157-169: null, or {url, resolution} of the best rendition
SelectSource(sources) ==
    LET best == getBestMp4Source(sources)
    IN  IF best = NoRendition THEN NotFound
        ELSE [url |-> best.src, resolution |-> <<best.width, best.height>>]

(***************************************************************************)
(* Transfer: uploadVideoToS3 (lines 218-279).                              *)
(* What the environment does to one transfer is a record                   *)
(*   fetch   "response" | "throw"   fetch(url) answers or throws           *)
(*   status  the status of the answer                                      *)
(*   text    "ok" | "throw"         response.text() of a non-2xx answer    *)
(*   body    the body of a non-2xx answer, a sequence of words             *)
(*   upload  "ok" | "throw"         upload.done()                          *)
(*   msg     the message of the thrown error, a sequence of words          *)
(* A message is a sequence of words; String.includes is containment of a   *)
(* word sequence.                                                          *)
(***************************************************************************)
\* response.ok
Ok(status) == status >= 200 /\ status <= 299

\* A text is the sequence of its characters.
\* line 267: the two texts looked for
ExpiredText == <<"e", "x", "p", "i", "r", "e", "d">>
UnauthorizedText ==
    <<"U", "n", "a", "u", "t", "h", "o", "r", "i", "z", "e", "d">>
\* line 238, up to the status
CdnUrlExpiredText ==
    <<"C", "D", "N", " ", "U", "R", "L", " ", "e", "x", "p", "i", "r", "e",
      "d", ":", " ">>
\* line 243, up to the status
FailedToFetchText ==
    <<"F", "a", "i", "l", "e", "d", " ", "t", "o", " ", "f", "e", "t", "c",
      "h", ":", " ">>
\* line 327
NoSourceText ==
    <<"N", "o", " ", "M", "P", "4", " ", "s", "o", "u", "r", "c", "e", " ",
      "a", "v", "a", "i", "l", "a", "b", "l", "e">>
\* line 348
MaxRetriesText ==
    <<"M", "a", "x", " ", "r", "e", "t", "r", "i", "e", "s", " ", "e", "x",
      "c", "e", "e", "d", "e", "d">>

\* the decimal digits of a number, as a template literal writes it
DigitChars == <<"0", "1", "2", "3", "4", "5", "6", "7", "8", "9">>
RECURSIVE Digits(_)
Digits(n) ==
    IF n < 10 THEN <<DigitChars[n + 1]>>
    ELSE Digits(n \div 10) \o <<DigitChars[(n % 10) + 1]>>

\* String.prototype.includes: needle is found at some place of msg
Includes(msg, needle) ==
    \E i \in 1..(Len(msg) - Len(needle) + 1) :
        SubSeq(msg, i, i + Len(needle) - 1) = needle

\* line 267: errorMsg.includes("expired") || errorMsg.includes("Unauthorized")
IsExpiryMessageNever(errorMsg) == FALSE
IsExpiryMessage(errorMsg) ==
    Includes(errorMsg, ExpiredText) \/ Includes(errorMsg, UnauthorizedText)

\* line 234: response.status === 401 || response.status === 403
IsExpiryStatusOnly401(status) == status = 401
IsExpiryStatus(status) == status = 401 \/ status = 403

\* the result objects; needsRetry left undefined in the code is FALSE here
Failure(error, needsRetry) ==
    [success |-> FALSE, error |-> error, needsRetry |-> needsRetry]
Success == [success |-> TRUE, error |-> <<>>, needsRetry |-> FALSE]

\* lines 264-278: the catch block
TransferCatch(errorMsg) ==
    IF IsExpiryMessage(errorMsg) THEN Failure(errorMsg, TRUE)
    ELSE Failure(errorMsg, FALSE)

\* lines 227-279; line 243 puts one space between the status and the status
\* text
uploadVideoToS3(o) ==
    IF o.fetch = "throw" THEN TransferCatch(o.msg)
    ELSE IF ~Ok(o.status) THEN
        IF o.text = "throw" THEN TransferCatch(o.msg)
        ELSE IF IsExpiryStatus(o.status) THEN
            Failure(IF o.body # <<>> THEN o.body
                    ELSE CdnUrlExpiredText \o Digits(o.status), TRUE)
        ELSE Failure(FailedToFetchText \o Digits(o.status) \o <<" ">> \o o.statusText,
                     FALSE)
    ELSE IF o.upload = "throw" THEN TransferCatch(o.msg)
    ELSE Success

(***************************************************************************)
(* Missing report: extract-missing.ts (lines 1-43).                        *)
(* A video id is a string, modelled as the sequence of its UTF-16 code     *)
(* units; the report is the text written to missing_videos.txt.            *)
(***************************************************************************)
Newline == 10

RECURSIVE StrLess(_, _)
\* a < b on strings: by code unit, a proper prefix first
StrLess(a, b) ==
    IF b = <<>> THEN FALSE
    ELSE IF a = <<>> THEN TRUE
    ELSE IF a[1] # b[1] THEN a[1] < b[1]
    ELSE StrLess(Tail(a), Tail(b))

RECURSIVE InsertString(_, _)
InsertString(sorted, x) ==
    IF sorted = <<>> THEN <<x>>
    ELSE IF StrLess(x, sorted[1]) THEN <<x>> \o sorted
    ELSE <<sorted[1]>> \o InsertString(Tail(sorted), x)

RECURSIVE SortStrings(_)
\* Array.prototype.sort() without comparator: ascending by code unit
SortStrings(s) ==
    IF s = <<>> THEN <<>>
    ELSE InsertString(SortStrings(SubSeq(s, 1, Len(s) - 1)), s[Len(s)])

RECURSIVE Join(_)
\* Array.prototype.join("\n")
Join(lines) ==
    IF lines = <<>> THEN <<>>
    ELSE IF Len(lines) = 1 THEN lines[1]
    ELSE lines[1] \o <<Newline>> \o Join(Tail(lines))

\* Array.prototype.map(v => v.videoId)
VideoIdsOf(list) == [i \in 1..Len(list) |-> list[i].videoId]

HasNullUrl(v) == v.url = NULL

\* lines 11-16: the parsed upload_errors.json, [] when it cannot be read
ReadUploadErrors(file) == IF file.state = "ok" THEN file.data ELSE <<>>

\* line 18
NoSourcesAll(sources) == VideoIdsOf(sources)
NoSources(sources) == VideoIdsOf(SelectSeq(sources, HasNullUrl))

\* line 20
FailedIds(uploadErrors) == SetFrom(VideoIdsOf(uploadErrors))

\* line 22: new Set([...noSources, ...failedIds])
AllMissingNoDedup(sources, uploadErrors) ==
    NoSources(sources) \o VideoIdsOf(uploadErrors)
AllMissing(sources, uploadErrors) ==
    SetFrom(NoSources(sources) \o FailedIds(uploadErrors))

\* lines 11-31: the text written to missing_videos.txt
ExtractMissing(sources, errorFile) ==
    Join(SortStrings(AllMissing(sources, ReadUploadErrors(errorFile))))

(***************************************************************************)
(* The upload run: upload-to-s3.ts                                         *)
(***************************************************************************)
fileVars == <<videoSources, checkpointFile, errorsFile>>
foldVars == <<completed, errors, successCount, errorCount>>
tokenVars == <<accessToken, tokenRefreshPromise, outstanding, credBody, credReqs>>
logVars == <<refreshLog, obs401>>
pureVars == <<input, output, savers>>

\* lines 192-199: the completed set, empty when the file cannot be read
loadCheckpoint(file) == IF file.state = "ok" THEN SetFrom(file.data) ELSE <<>>

\* line 211: JSON.stringify({ completed: Array.from(completed) })
CheckpointContentOf(done) == File(done)

\* line 291: v.url !== null
HasUrl(v) == v.url # NULL

\* line 291
VideosToUploadAll(sources) == sources
VideosToUpload(sources) == SelectSeq(sources, HasUrl)

\* line 301: videosToUpload.filter(v => !completed.has(v.videoId))
PendingOfAll(videosToUpload, done) == videosToUpload
PendingOf(videosToUpload, done) ==
    LET NotDone(v) == v.videoId \notin Range(done)
    IN  SelectSeq(videosToUpload, NotDone)

\* line 354: pending.slice(i, i + CONCURRENCY)
BatchOfRest(pend, i) == SubSeq(pend, i + 1, Len(pend))
BatchOf(pend, i) ==
    SubSeq(pend, i + 1, IF i + CONCURRENCY < Len(pend) THEN i + CONCURRENCY ELSE Len(pend))

\* line 85: a refresh is under way, the caller takes its promise
JoinsRefreshNever(promise) == FALSE
JoinsRefresh(promise) == promise # NoPromise

\* line 334: result.needsRetry && attempt < maxRetries
ShouldRetryNever(result, attempt) == FALSE
ShouldRetryAlways(result, attempt) == result.needsRetry
ShouldRetry(result, attempt) == result.needsRetry /\ attempt < DefaultMaxRetries

\* a catch block that always waits and tries again
ShouldBackoffAlways(attempt) == TRUE

\* line 172: attempt < retries - 1
ShouldBackoff(attempt) == attempt < DefaultRetries - 1

\* lines 324-328
NoSourceResult == Failure(NoSourceText, FALSE)
\* lines 344-349
MaxRetriesResult == Failure(MaxRetriesText, FALSE)
NoResult == Failure(<<>>, FALSE)

(* One uploadWithRetry call.  pc is the await it is suspended at:          *)
(*   "fetch"    line 142, "token" line 147, "refetch" line 148,            *)
(*   "body"     line 157, "delay" line 177, "transfer" line 331,           *)
(*   "settled"  after its return                                           *)
(* attempt is uploadWithRetry's loop variable, rattempt getFreshVideoUrl's.*)
(* tok is the token sent with the metadata request under way, awaits the   *)
(* credential request waited for, owner whether this call created it,      *)
(* saw401 the token whose 401 made this resolve ask for a new one.         *)
(* gotNotFound records that a getFreshVideoUrl call of this workflow       *)
(* returned null, waits the delays (in ms) the getFreshVideoUrl call under *)
(* way has waited or is waiting.  slot is the place of the call in        *)
(* batch.map, used the urls handed to uploadVideoToS3 so far, in order.    *)
(* resolves and transfers count the calls of getFreshVideoUrl and          *)
(* uploadVideoToS3 made so far.  status is the status of the last metadata *)
(* response that was tested at line 153, 0 while there is none.  cdn is    *)
(* where the uploadVideoToS3 call under way stands: 0 while its fetch      *)
(* (line 228) is pending, then the status of the response, whose body      *)
(* (line 231) or whose upload (line 262) is awaited.                       *)
\* lines 312-322 and 138-144, up to the first await
StartWorkflow(videoId, token) ==
    [videoId |-> videoId, pc |-> "fetch", attempt |-> 0, rattempt |-> 0,
     tok |-> token, awaits |-> NoPromise, owner |-> FALSE, saw401 |-> 0,
     url |-> <<>>, result |-> NoResult, resolves |-> 1, transfers |-> 0,
     gotNotFound |-> FALSE, waits |-> <<>>, slot |-> 0, used |-> <<>>,
     status |-> 0, cdn |-> 0]

Unsettled == {"fetch", "token", "refetch", "body", "delay", "transfer"}

\* line 357: batch.map((video) => uploadWithRetry(video.videoId))
StartBatch(batch, token) ==
    [k \in 1..Len(batch) |-> [StartWorkflow(batch[k].videoId, token) EXCEPT !.slot = k]]

\* the return of uploadWithRetry
Settle(w, result) ==
    [w EXCEPT !.pc = "settled", !.result = result, !.tok = 0, !.url = <<>>,
              !.awaits = NoPromise, !.saw401 = 0, !.waits = <<>>]

\* a transfer that keeps the url of the first resolve of the workflow
StartTransferKeepsUrl(w, freshData) ==
    LET url == IF w.used = <<>> THEN freshData.url ELSE w.used[1]
    IN  [w EXCEPT !.pc = "transfer", !.url = url, !.tok = 0,
                  !.awaits = NoPromise, !.saw401 = 0, !.waits = <<>>,
                  !.used = Append(@, url)]

\* the transfer of line 331 started with the url of freshData
StartTransfer(w, freshData) ==
    [w EXCEPT !.pc = "transfer", !.url = freshData.url, !.tok = 0,
              !.awaits = NoPromise, !.saw401 = 0, !.waits = <<>>,
              !.used = Append(@, freshData.url)]

\* a workflow that goes on to the next attempt when the resolve returned null
AfterResolveRetriesNotFound(w, freshData) ==
    IF freshData = NotFound
    THEN IF w.attempt < DefaultMaxRetries
         THEN [w EXCEPT !.gotNotFound = TRUE, !.pc = "fetch", !.attempt = @ + 1,
                        !.rattempt = 0, !.resolves = @ + 1, !.awaits = NoPromise,
                        !.saw401 = 0, !.waits = <<>>]
         ELSE Settle([w EXCEPT !.gotNotFound = TRUE], NoSourceResult)
    ELSE StartTransfer(w, freshData)

\* a resolve that reads the body of every response
ReadsBodyAlways(status) == TRUE

\* line 153: the body is read only of a response that is ok
ReadsBody(status) == Ok(status)

\* lines 153-157: the response is ok, its body is being read
AwaitBody(w, status) ==
    [w EXCEPT !.pc = "body", !.status = status, !.tok = 0, !.awaits = NoPromise,
              !.saw401 = 0]

\* lines 322-331 after getFreshVideoUrl returned freshData
AfterResolve(w, freshData) ==
    IF freshData = NotFound THEN Settle([w EXCEPT !.gotNotFound = TRUE], NoSourceResult)
    ELSE StartTransfer(w, freshData)

\* line 173: (attempt + 1) * 2000, in milliseconds
WaitTimeFromZero(attempt) == attempt * 2000
WaitTime(attempt) == (attempt + 1) * 2000

\* lines 170-179: the catch block when another attempt is left
Backoff(w) ==
    [w EXCEPT !.pc = "delay", !.tok = 0, !.awaits = NoPromise, !.owner = FALSE,
              !.saw401 = 0, !.waits = Append(@, WaitTime(w.rattempt))]

\* lines 331-341 after uploadVideoToS3 returned result
AfterTransfer(w, result, token) ==
    LET u == [w EXCEPT !.transfers = @ + 1, !.url = <<>>, !.cdn = 0]
    IN  IF ShouldRetry(result, w.attempt)
        THEN IF w.attempt + 1 <= DefaultMaxRetries
             THEN [u EXCEPT !.attempt = @ + 1, !.rattempt = 0, !.pc = "fetch",
                            !.tok = token, !.resolves = @ + 1]
             ELSE Settle([u EXCEPT !.attempt = @ + 1], MaxRetriesResult)
        ELSE Settle(u, result)

\* line 362: result.success
IsSuccessAlways(r) == TRUE
IsSuccess(r) == r.result.success

RECURSIVE FoldResults(_, _)
\* lines 361-371: the results folded in, in batch order
FoldResults(acc, results) ==
    IF results = <<>> THEN acc
    ELSE LET r == results[1]
             next == IF IsSuccess(r)
                     THEN [acc EXCEPT !.successCount = @ + 1,
                                      !.completed = SetAdd(@, r.videoId)]
                     ELSE [acc EXCEPT !.errorCount = @ + 1,
                                      !.errors = Append(@, [videoId |-> r.videoId,
                                                            error |-> r.result.error])]
         IN  FoldResults(next, Tail(results))

(***************************************************************************)
(* What the environment may answer                                         *)
(***************************************************************************)
\* the metadata endpoint: renditions of a video, src naming video and request;
\* a request is told by the slot of the workflow and the number of its resolve
GoodRenditions(videoId, serial) ==
    << [container |-> "MP4", src |-> <<"http://", videoId, serial>>,
        width |-> 1920, height |-> 1080],
       [container |-> "MP4", src |-> <<"https://", videoId, serial>>,
        width |-> 1280, height |-> 720] >>
BadRenditions(videoId, serial) ==
    << [container |-> "MP4", src |-> <<"http://", videoId, serial>>,
        width |-> 1920, height |-> 1080] >>

\* answers to a metadata request sent with token tok; abnormal marks the answers
\* that are paid from the budget
MetadataAnswers(w) ==
    {[kind |-> "throw", status |-> 0, abnormal |-> TRUE]}
    \cup (IF w.tok <= expiredUpTo
          THEN {[kind |-> "response", status |-> 401, abnormal |-> FALSE]}
          ELSE {[kind |-> "response", status |-> 200, abnormal |-> FALSE],
                [kind |-> "response", status |-> 404, abnormal |-> TRUE]})

\* what the reading of the body of a metadata response gives (line 157): the
\* renditions, or an error; whatever the status of the response was
BodyAnswers(w) ==
    {[kind |-> "json", sources |-> GoodRenditions(w.videoId, <<w.slot, w.resolves>>),
      abnormal |-> FALSE],
     [kind |-> "json", sources |-> BadRenditions(w.videoId, <<w.slot, w.resolves>>),
      abnormal |-> TRUE],
     [kind |-> "throw", sources |-> <<>>, abnormal |-> TRUE]}

\* answers of the credential endpoint (line 93)
CredentialAnswers ==
    {[status |-> 200, abnormal |-> FALSE], [status |-> 500, abnormal |-> TRUE]}

\* what the reading of the body of a credential response gives (line 107): the
\* token, or an error
CredentialBodyAnswers ==
    {[kind |-> "json", abnormal |-> FALSE], [kind |-> "throw", abnormal |-> TRUE]}

\* the status text of a response: as sent, or empty (as over HTTP/2)
NoStatusText == <<>>
NotFoundText == <<"N", "o", "t", " ", "F", "o", "u", "n", "d">>
ForbiddenText == <<"F", "o", "r", "b", "i", "d", "d", "e", "n">>
OkText == <<"O", "K">>
StatusTextOf(status) ==
    IF status = 404 THEN NotFoundText
    ELSE IF status = 403 THEN ForbiddenText
    ELSE IF status = 200 THEN OkText
    ELSE NoStatusText

\* texts of the run: an error body of the CDN and the messages of two errors
AccessDeniedText ==
    <<"A", "c", "c", "e", "s", "s", "D", "e", "n", "i", "e", "d">>
SocketHangUpText ==
    <<"s", "o", "c", "k", "e", "t", " ", "h", "a", "n", "g", " ", "u", "p">>
RequestExpiredText ==
    <<"R", "e", "q", "u", "e", "s", "t", " ", "h", "a", "s", " ", "e", "x",
      "p", "i", "r", "e", "d">>

TransferOutcome(fetch, status, statusText, text, body, upload, msg) ==
    [fetch |-> fetch, status |-> status, statusText |-> statusText, text |-> text,
     body |-> body, upload |-> upload, msg |-> msg]

TransferOk == TransferOutcome("response", 200, StatusTextOf(200), "ok", <<>>, "ok", <<>>)

\* what may happen to a transfer of the run; every one but TransferOk is abnormal
RunTransferOutcomes ==
    { TransferOk,
      TransferOutcome("response", 403, StatusTextOf(403), "ok", <<>>, "ok", <<>>),
      TransferOutcome("response", 403, StatusTextOf(403), "ok", AccessDeniedText, "ok", <<>>),
      TransferOutcome("response", 404, StatusTextOf(404), "ok", <<>>, "ok", <<>>),
      TransferOutcome("response", 200, StatusTextOf(200), "ok", <<>>, "throw",
                      SocketHangUpText),
      TransferOutcome("throw", 0, NoStatusText, "ok", <<>>, "ok",
                      RequestExpiredText) }

(***************************************************************************)
(* Initial states: the module code has run and main() has sent the startup *)
(* token request (line 284).                                               *)
(***************************************************************************)
Entry(id, url) == [videoId |-> id, url |-> url]

Max(S) == CHOOSE x \in S : \A y \in S : y <= x
Min(S) == CHOOSE x \in S : \A y \in S : x <= y

RECURSIVE Ascending(_)
\* the elements of a set of numbers, ascending
Ascending(S) == IF S = {} THEN <<>> ELSE <<Min(S)>> \o Ascending(S \ {Min(S)})

\* id lists up to renaming of the ids: ids are numbered by first appearance
IdLists(n) ==
    { f \in [1..n -> 1..n] :
        \A i \in 1..n : f[i] <= 1 + Max({f[j] : j \in 1..(i - 1)} \cup {0}) }

\* video_sources.json of the general specification
GeneralSources ==
    {AbsentFile} \cup
    UNION { { File([i \in 1..n |-> Entry(ids[i], urls[i])]) :
                ids \in IdLists(n), urls \in [1..n -> {NULL, "cached"}] } :
            n \in 0..MaxLen }

\* upload_checkpoint.json of the general specification
GeneralCheckpoints ==
    {AbsentFile, CorruptFile} \cup { File(Ascending(S)) : S \in SUBSET (1..MaxLen) }

\* the wide specification: one full batch, or one and more; all ids different
WideSources ==
    { File([i \in 1..n |-> Entry(i, "cached")]) :
        n \in {CONCURRENCY, CONCURRENCY + MaxExtra} }

WideCheckpoints == {AbsentFile, File(<<1>>)}

\* upload_errors.json: none, or the one an earlier run left
EarlierErrors == <<[videoId |-> 0, error |-> NoSourceText]>>
ErrorFiles == {AbsentFile, File(EarlierErrors)}

InitRun(sourceFiles, checkpointFiles, errorFiles, faults) ==
    /\ videoSources \in sourceFiles
    /\ checkpointFile \in checkpointFiles
    /\ errorsFile \in errorFiles
    /\ mainPc = "token"
    /\ exitCode = NoExit
    /\ pending = <<>>
    /\ batchStart = 0
    /\ completed = <<>>
    /\ errors = <<>>
    /\ successCount = 0
    /\ errorCount = 0
    /\ checkpointLock = FALSE
    /\ accessToken = 0
    /\ tokenRefreshPromise = 1
    /\ outstanding = {1}
    /\ credBody = {}
    /\ credReqs = 1
    /\ expiredUpTo = 0
    /\ wf = <<>>
    /\ budget = faults
    /\ loaded = <<>>
    /\ batchNo = 0
    /\ savedBatches = 0
    /\ succeeded = {}
    /\ started = <<>>
    /\ abortCause = NULL
    /\ refreshLog = <<>>
    /\ obs401 = <<>>
    /\ input = <<>>
    /\ output = NotYet
    /\ savers = <<>>

Init == InitRun(GeneralSources, GeneralCheckpoints, {AbsentFile}, MaxFaults)

\* a first run, or a run after one that left a checkpoint and an error list
InitWide ==
    /\ InitRun(WideSources, WideCheckpoints, ErrorFiles, MaxFaults)
    /\ (errorsFile = AbsentFile) = (checkpointFile = AbsentFile)

(***************************************************************************)
(* Actions of the run                                                      *)
(***************************************************************************)
Running == {"token", "load", "batch", "saving", "reporting"}

\* what an abnormal answer takes from the budget: the number of workflows of the
\* batch under way (1 when none is)
Cost(abnormal) == IF ~abnormal THEN 0 ELSE IF Len(wf) > 1 THEN Len(wf) ELSE 1

\* main() rejects: main().catch logs and calls process.exit(1) (lines 411-414)
Abort(cause) ==
    /\ mainPc' = "aborted"
    /\ exitCode' = 1
    /\ abortCause' = cause

NoAbort == UNCHANGED <<exitCode, abortCause>>

\* main() returns (line 399): nothing sets process.exitCode and nothing calls
\* process.exit, the process ends with 0 whatever the error list holds
ExitCodeFailsOnErrors(errs) == IF Len(errs) > 0 THEN 1 ELSE 0
ExitCodeOf(errs) == 0

\* line 393: errors.length > 0
ShouldReportAlways(errs) == TRUE
ShouldReport(errs) == Len(errs) > 0

\* the loop head (line 353) reached with i; after the loop lines 386-394, up to
\* the await of the write of upload_errors.json
\* a loop whose windows share an entry
NextStartOverlaps(i) == i + CONCURRENCY - 1

\* line 353: i += CONCURRENCY
NextStart(i) == i + CONCURRENCY

LoopStep(i, pend, errs, token) ==
    IF i < Len(pend)
    THEN /\ wf' = StartBatch(BatchOf(pend, i), token)
         /\ started' = started \o [k \in 1..Len(wf') |-> wf'[k].videoId]
         /\ mainPc' = "batch"
         /\ batchStart' = i
         /\ batchNo' = batchNo + 1
         /\ UNCHANGED <<errorsFile, exitCode>>
    ELSE /\ wf' = <<>>
         /\ IF ShouldReport(errs)
            THEN mainPc' = "reporting" /\ UNCHANGED exitCode
            ELSE mainPc' = "done" /\ exitCode' = ExitCodeOf(errs)
         /\ UNCHANGED <<errorsFile, batchStart, batchNo, started>>

\* lines 284 and 93-105: the startup token request is answered; a response
\* that is not ok makes getAccessToken throw and main() reject
StartupTokenResponds ==
    /\ mainPc = "token"
    /\ tokenRefreshPromise \notin credBody
    /\ \E a \in CredentialAnswers :
        /\ Cost(a.abnormal) <= budget
        /\ budget' = budget - Cost(a.abnormal)
        /\ IF Ok(a.status)
           THEN /\ credBody' = credBody \cup {tokenRefreshPromise}
                /\ UNCHANGED <<mainPc, tokenRefreshPromise, outstanding>>
                /\ NoAbort
           ELSE /\ Abort("token")
                /\ tokenRefreshPromise' = NoPromise
                /\ outstanding' = outstanding \ {tokenRefreshPromise}
                /\ UNCHANGED credBody
    /\ UNCHANGED <<fileVars, pending, batchStart, foldVars, checkpointLock, accessToken,
                   credReqs, expiredUpTo, wf, loaded, batchNo, savedBatches, succeeded,
                   started, logVars, pureVars>>

\* lines 107-120 and 284: the body of the startup token response is read and
\* main() gets the token, or the reading throws and main() rejects
StartupTokenRead ==
    /\ mainPc = "token"
    /\ tokenRefreshPromise \in credBody
    /\ \E b \in CredentialBodyAnswers :
        /\ Cost(b.abnormal) <= budget
        /\ budget' = budget - Cost(b.abnormal)
        /\ tokenRefreshPromise' = NoPromise
        /\ outstanding' = outstanding \ {tokenRefreshPromise}
        /\ credBody' = credBody \ {tokenRefreshPromise}
        /\ IF b.kind = "json"
           THEN /\ accessToken' = tokenRefreshPromise
                /\ mainPc' = "load"
                /\ NoAbort
           ELSE /\ Abort("token")
                /\ UNCHANGED accessToken
    /\ UNCHANGED <<fileVars, pending, batchStart, foldVars, checkpointLock, credReqs,
                   expiredUpTo, wf, loaded, batchNo, savedBatches, succeeded, started,
                   logVars, pureVars>>

\* lines 286-304 and the first pass through the loop head
LoadAndPlan ==
    /\ mainPc = "load"
    /\ IF videoSources.state # "ok"
       THEN /\ Abort("input")
            /\ UNCHANGED <<errorsFile, pending, batchStart, completed, wf, loaded,
                           batchNo, started>>
       ELSE LET done == loadCheckpoint(checkpointFile)
                pend == PendingOf(VideosToUpload(videoSources.data), done)
            IN  /\ completed' = done
                /\ loaded' = done
                /\ pending' = pend
                /\ LoopStep(0, pend, errors, accessToken)
                /\ UNCHANGED abortCause
    /\ UNCHANGED <<videoSources, checkpointFile, errors, successCount, errorCount,
                   checkpointLock, tokenVars, expiredUpTo, budget, savedBatches,
                   succeeded, logVars, pureVars>>

\* the environment: the token in use expires
TokenExpires ==
    /\ mainPc = "batch"
    /\ Cost(TRUE) <= budget
    /\ expiredUpTo < accessToken
    /\ expiredUpTo' = accessToken
    /\ budget' = budget - Cost(TRUE)
    /\ UNCHANGED <<fileVars, mainPc, exitCode, pending, batchStart, foldVars,
                   checkpointLock, tokenVars, wf, loaded, batchNo, savedBatches,
                   succeeded, started, abortCause, logVars, pureVars>>

\* line 146: the status of the first response of the attempt is tested, the
\* response of the repeated request (line 148) is not
RefreshesOnAny401(status, pc) == status = 401
RefreshesOnAnyFailure(status, pc) == ~Ok(status)
RefreshesOn(status, pc) == status = 401 /\ pc = "fetch"

\* lines 142-156 and 170-181: the metadata request of workflow k is answered
MetadataResponds(k) ==
    /\ mainPc = "batch"
    /\ wf[k].pc \in {"fetch", "refetch"}
    /\ \E a \in MetadataAnswers(wf[k]) :
        LET w == wf[k] IN
        /\ Cost(a.abnormal) <= budget
        /\ budget' = budget - Cost(a.abnormal)
        /\ IF a.kind = "throw"
           THEN \* lines 170-181
                /\ IF ShouldBackoff(w.rattempt)
                   THEN wf' = [wf EXCEPT ![k] = Backoff(w)] /\ UNCHANGED mainPc /\ NoAbort
                   ELSE Abort("resolve") /\ UNCHANGED wf
                /\ UNCHANGED <<tokenVars, logVars>>
           ELSE IF RefreshesOn(a.status, w.pc)
           THEN \* line 147: getAccessToken()
                /\ obs401' = Append(obs401, w.tok)
                /\ IF JoinsRefresh(tokenRefreshPromise)
                   THEN /\ wf' = [wf EXCEPT ![k] = [w EXCEPT !.pc = "token",
                                        !.awaits = tokenRefreshPromise, !.owner = FALSE,
                                        !.saw401 = w.tok]]
                        /\ UNCHANGED <<tokenVars, refreshLog>>
                   ELSE /\ credReqs' = credReqs + 1
                        /\ outstanding' = outstanding \cup {credReqs'}
                        /\ tokenRefreshPromise' = credReqs'
                        /\ refreshLog' = Append(refreshLog, w.tok)
                        /\ wf' = [wf EXCEPT ![k] = [w EXCEPT !.pc = "token",
                                        !.awaits = credReqs', !.owner = TRUE,
                                        !.saw401 = w.tok]]
                        /\ UNCHANGED <<accessToken, credBody>>
                /\ UNCHANGED mainPc /\ NoAbort
           ELSE \* lines 153-157
                /\ wf' = [wf EXCEPT ![k] =
                            IF ReadsBody(a.status) THEN AwaitBody(w, a.status)
                            ELSE AfterResolve([w EXCEPT !.status = a.status], NotFound)]
                /\ UNCHANGED <<mainPc, tokenVars, logVars>> /\ NoAbort
    /\ UNCHANGED <<fileVars, pending, batchStart, foldVars, checkpointLock, expiredUpTo,
                   loaded, batchNo, savedBatches, succeeded, started, pureVars>>

\* lines 157-181: the body of the response to workflow k is read, or the
\* reading fails
BodyRead(k) ==
    /\ mainPc = "batch"
    /\ wf[k].pc = "body"
    /\ \E b \in BodyAnswers(wf[k]) :
        LET w == wf[k] IN
        /\ Cost(b.abnormal) <= budget
        /\ budget' = budget - Cost(b.abnormal)
        /\ IF b.kind = "throw"
           THEN \* lines 170-181
                IF ShouldBackoff(w.rattempt)
                THEN wf' = [wf EXCEPT ![k] = Backoff(w)] /\ UNCHANGED mainPc /\ NoAbort
                ELSE Abort("resolve") /\ UNCHANGED wf
           ELSE \* lines 157-169 and 322-331
                /\ wf' = [wf EXCEPT ![k] = AfterResolve(w, SelectSource(b.sources))]
                /\ UNCHANGED mainPc /\ NoAbort
    /\ UNCHANGED <<fileVars, pending, batchStart, foldVars, checkpointLock, tokenVars,
                   expiredUpTo, loaded, batchNo, savedBatches, succeeded, started,
                   logVars, pureVars>>

\* the getAccessToken calls of the workflows that wait for credential request r
\* (lines 86 and 116)
Waiters(r) == {k \in DOMAIN wf : wf[k].pc = "token" /\ wf[k].awaits = r}

\* lines 105 or 107 throw: the promise of request r rejects, the finally block
\* of the call that sent it clears tokenRefreshPromise (line 119) and every
\* waiting getAccessToken call throws into the catch block of its
\* getFreshVideoUrl (lines 170-181)
RefreshRejects(r) ==
    /\ outstanding' = outstanding \ {r}
    /\ credBody' = credBody \ {r}
    /\ tokenRefreshPromise' = IF \E k \in Waiters(r) : wf[k].owner
                              THEN NoPromise ELSE tokenRefreshPromise
    /\ UNCHANGED accessToken
    /\ IF \E k \in Waiters(r) : ~ShouldBackoff(wf[k].rattempt)
       THEN Abort("refresh") /\ UNCHANGED wf
       ELSE /\ wf' = [k \in DOMAIN wf |->
                        IF k \in Waiters(r) THEN Backoff(wf[k]) ELSE wf[k]]
            /\ UNCHANGED mainPc /\ NoAbort

\* lines 93-107: credential request r is answered; the body of a response that
\* is ok is read next
CredentialResponds(r) ==
    /\ mainPc = "batch"
    /\ r \in outstanding \ credBody
    /\ \E a \in CredentialAnswers :
        /\ Cost(a.abnormal) <= budget
        /\ budget' = budget - Cost(a.abnormal)
        /\ IF Ok(a.status)
           THEN /\ credBody' = credBody \cup {r}
                /\ UNCHANGED <<mainPc, wf, accessToken, tokenRefreshPromise, outstanding>>
                /\ NoAbort
           ELSE RefreshRejects(r)
    /\ UNCHANGED <<fileVars, pending, batchStart, foldVars, checkpointLock, credReqs,
                   expiredUpTo, loaded, batchNo, savedBatches, succeeded, started,
                   logVars, pureVars>>

\* lines 107-120 then 147-150: the body of the response to credential request r
\* is read and the waiting workflows repeat their request with the new token,
\* or the reading throws
CredentialBodyRead(r) ==
    /\ mainPc = "batch"
    /\ r \in credBody
    /\ \E b \in CredentialBodyAnswers :
        /\ Cost(b.abnormal) <= budget
        /\ budget' = budget - Cost(b.abnormal)
        /\ IF b.kind = "json"
           THEN /\ outstanding' = outstanding \ {r}
                /\ credBody' = credBody \ {r}
                /\ tokenRefreshPromise' = IF \E k \in Waiters(r) : wf[k].owner
                                          THEN NoPromise ELSE tokenRefreshPromise
                /\ accessToken' = r
                /\ wf' = [k \in DOMAIN wf |->
                            IF k \in Waiters(r)
                            THEN [wf[k] EXCEPT !.pc = "refetch", !.tok = accessToken',
                                               !.owner = FALSE]
                            ELSE wf[k]]
                /\ UNCHANGED mainPc /\ NoAbort
           ELSE RefreshRejects(r)
    /\ UNCHANGED <<fileVars, pending, batchStart, foldVars, checkpointLock, credReqs,
                   expiredUpTo, loaded, batchNo, savedBatches, succeeded, started,
                   logVars, pureVars>>

\* lines 177-178 and 140-144: the backoff delay of workflow k is over
DelayElapses(k) ==
    /\ mainPc = "batch"
    /\ wf[k].pc = "delay"
    /\ wf' = [wf EXCEPT ![k] = [@ EXCEPT !.pc = "fetch", !.rattempt = @ + 1,
                                         !.tok = accessToken]]
    /\ UNCHANGED <<fileVars, mainPc, exitCode, pending, batchStart, foldVars,
                   checkpointLock, tokenVars, expiredUpTo, budget, loaded, batchNo,
                   savedBatches, succeeded, started, abortCause, logVars, pureVars>>

\* the outcomes of a transfer whose fetch was answered with status
OutcomesAfter(status) ==
    {o \in RunTransferOutcomes : o.fetch = "response" /\ o.status = status}

\* lines 228-230: the fetch of the transfer of workflow k is answered, or it
\* throws and uploadVideoToS3 returns from its catch block (lines 264-278, then
\* 331-341)
TransferResponds(k) ==
    /\ mainPc = "batch"
    /\ wf[k].pc = "transfer"
    /\ wf[k].cdn = 0
    /\ \E o \in RunTransferOutcomes :
        LET abnormal == o.fetch = "throw" \/ ~Ok(o.status) IN
        /\ Cost(abnormal) <= budget
        /\ budget' = budget - Cost(abnormal)
        /\ wf' = [wf EXCEPT ![k] =
                    IF o.fetch = "throw"
                    THEN AfterTransfer(wf[k], uploadVideoToS3(o), accessToken)
                    ELSE [wf[k] EXCEPT !.cdn = o.status]]
    /\ UNCHANGED <<fileVars, mainPc, exitCode, pending, batchStart, foldVars,
                   checkpointLock, tokenVars, expiredUpTo, loaded, batchNo,
                   savedBatches, succeeded, started, abortCause, logVars, pureVars>>

\* lines 231-244 then 331-341: the body of the response that is not ok is read
\* and uploadVideoToS3 of workflow k returns
ErrorBodyRead(k) ==
    /\ mainPc = "batch"
    /\ wf[k].pc = "transfer"
    /\ wf[k].cdn # 0
    /\ ~Ok(wf[k].cdn)
    /\ \E o \in OutcomesAfter(wf[k].cdn) :
        wf' = [wf EXCEPT ![k] = AfterTransfer(wf[k], uploadVideoToS3(o), accessToken)]
    /\ UNCHANGED <<fileVars, mainPc, exitCode, pending, batchStart, foldVars,
                   checkpointLock, tokenVars, expiredUpTo, budget, loaded, batchNo,
                   savedBatches, succeeded, started, abortCause, logVars, pureVars>>

\* lines 262-278 then 331-341: upload.done() returns or throws and
\* uploadVideoToS3 of workflow k returns
UploadDone(k) ==
    /\ mainPc = "batch"
    /\ wf[k].pc = "transfer"
    /\ Ok(wf[k].cdn)
    /\ \E o \in OutcomesAfter(wf[k].cdn) :
        /\ Cost(o # TransferOk) <= budget
        /\ budget' = budget - Cost(o # TransferOk)
        /\ wf' = [wf EXCEPT ![k] = AfterTransfer(wf[k], uploadVideoToS3(o), accessToken)]
    /\ UNCHANGED <<fileVars, mainPc, exitCode, pending, batchStart, foldVars,
                   checkpointLock, tokenVars, expiredUpTo, loaded, batchNo,
                   savedBatches, succeeded, started, abortCause, logVars, pureVars>>

\* line 356: await Promise.all(...) goes on when every call of the batch has
\* returned
PromiseRace(calls) == \E k \in DOMAIN calls : calls[k].pc = "settled"
PromiseAll(calls) == \A k \in DOMAIN calls : calls[k].pc = "settled"

\* a test of line 204 that never finds the lock held
LockFreeAlways(lock) == TRUE

\* line 204: the test of the while loop of saveCheckpoint, negated
LockFree(lock) == ~lock

\* lines 356-373 up to the await of Bun.write in saveCheckpoint (line 209)
BatchSettles ==
    /\ mainPc = "batch"
    /\ wf # <<>>
    /\ PromiseAll(wf)
    /\ LockFree(checkpointLock)
    /\ LET acc == FoldResults([completed |-> completed, errors |-> errors,
                               successCount |-> successCount,
                               errorCount |-> errorCount], wf)
       IN  /\ completed' = acc.completed
           /\ errors' = acc.errors
           /\ successCount' = acc.successCount
           /\ errorCount' = acc.errorCount
    /\ succeeded' = succeeded \cup {wf[k].videoId : k \in {j \in DOMAIN wf : wf[j].result.success}}
    /\ checkpointLock' = TRUE
    /\ mainPc' = "saving"
    /\ wf' = <<>>
    /\ UNCHANGED <<fileVars, exitCode, pending, batchStart, tokenVars, expiredUpTo,
                   budget, loaded, batchNo, savedBatches, started, abortCause,
                   logVars, pureVars>>

\* what a write of a file that does not complete may leave
TornWrites(old) == {old, CorruptFile}

\* lines 209-216 and 375-384, then the loop head: Bun.write returns or throws
CheckpointWritten ==
    /\ mainPc = "saving"
    /\ checkpointLock' = FALSE
    /\ \E done \in BOOLEAN :
        IF done
        THEN /\ checkpointFile' = CheckpointContentOf(completed)
             /\ savedBatches' = savedBatches + 1
             /\ LoopStep(NextStart(batchStart), pending, errors, accessToken)
             /\ UNCHANGED <<budget, abortCause>>
        ELSE /\ Cost(TRUE) <= budget
             /\ budget' = budget - Cost(TRUE)
             /\ checkpointFile' \in TornWrites(checkpointFile)
             /\ Abort("save")
             /\ UNCHANGED <<errorsFile, wf, batchStart, batchNo, started, savedBatches>>
    /\ UNCHANGED <<videoSources, pending, foldVars, tokenVars, expiredUpTo, loaded,
                   succeeded, logVars, pureVars>>

\* lines 394-399: the write of upload_errors.json returns or throws
ErrorsWritten ==
    /\ mainPc = "reporting"
    /\ \E done \in BOOLEAN :
        IF done
        THEN /\ errorsFile' = File(errors)
             /\ mainPc' = "done"
             /\ exitCode' = ExitCodeOf(errors)
             /\ UNCHANGED <<budget, abortCause>>
        ELSE /\ Cost(TRUE) <= budget
             /\ budget' = budget - Cost(TRUE)
             /\ errorsFile' \in TornWrites(errorsFile)
             /\ Abort("report")
    /\ UNCHANGED <<videoSources, checkpointFile, pending, batchStart, foldVars,
                   checkpointLock, tokenVars, expiredUpTo, wf, loaded, batchNo,
                   savedBatches, succeeded, started, logVars, pureVars>>

\* the process ends while main() is suspended, at pc with exit code code: what
\* it held in memory is gone, the files stay, a write under way may be cut
\* short; of the bookkeeping, what the durability properties read is kept
ProcessEnds(pc, code) ==
    /\ mainPc \in Running
    /\ mainPc' = pc
    /\ exitCode' = code
    /\ checkpointFile' \in
         IF mainPc = "saving"
         THEN TornWrites(checkpointFile) \cup {CheckpointContentOf(completed)}
         ELSE {checkpointFile}
    /\ errorsFile' \in
         IF mainPc = "reporting"
         THEN TornWrites(errorsFile) \cup {File(errors)}
         ELSE {errorsFile}
    /\ pending' = <<>>
    /\ batchStart' = 0
    /\ completed' = <<>>
    /\ errors' = <<>>
    /\ successCount' = 0
    /\ errorCount' = 0
    /\ accessToken' = 0
    /\ tokenRefreshPromise' = NoPromise
    /\ outstanding' = {}
    /\ credBody' = {}
    /\ credReqs' = 0
    /\ expiredUpTo' = 0
    /\ wf' = <<>>
    /\ budget' = 0
    /\ started' = <<>>
    /\ refreshLog' = <<>>
    /\ obs401' = <<>>
    /\ UNCHANGED <<videoSources, checkpointLock, loaded, batchNo,
                   savedBatches, succeeded, abortCause, pureVars>>

\* lines 401-409: an exception or a rejection outside the promises of main()
\* reaches the handlers, which call process.exit(1)
UncaughtException == ProcessEnds("faulted", 1)

\* the process is killed from outside: no exit code of its own
Crash == ProcessEnds("crashed", exitCode)

\* the process ended with main() neither returned nor rejected
Stopped == {"crashed", "faulted"}

Next ==
    \/ StartupTokenResponds
    \/ StartupTokenRead
    \/ LoadAndPlan
    \/ TokenExpires
    \/ \E k \in DOMAIN wf : MetadataResponds(k)
    \/ \E k \in DOMAIN wf : BodyRead(k)
    \/ \E r \in outstanding : CredentialResponds(r)
    \/ \E r \in outstanding : CredentialBodyRead(r)
    \/ \E k \in DOMAIN wf : DelayElapses(k)
    \/ \E k \in DOMAIN wf : TransferResponds(k)
    \/ \E k \in DOMAIN wf : ErrorBodyRead(k)
    \/ \E k \in DOMAIN wf : UploadDone(k)
    \/ BatchSettles
    \/ CheckpointWritten
    \/ ErrorsWritten
    \/ UncaughtException
    \/ Crash

Spec == Init /\ [][Next]_vars

SpecWide == InitWide /\ [][Next]_vars

\* ---- the run when what it waits for returns ----
\* the steps of the run: an answer to a request of it, the end of a delay or
\* of a write, or a continuation of main()
RunStep ==
    \/ StartupTokenResponds
    \/ StartupTokenRead
    \/ LoadAndPlan
    \/ \E k \in DOMAIN wf : MetadataResponds(k)
    \/ \E k \in DOMAIN wf : BodyRead(k)
    \/ \E r \in outstanding : CredentialResponds(r)
    \/ \E r \in outstanding : CredentialBodyRead(r)
    \/ \E k \in DOMAIN wf : DelayElapses(k)
    \/ \E k \in DOMAIN wf : TransferResponds(k)
    \/ \E k \in DOMAIN wf : ErrorBodyRead(k)
    \/ \E k \in DOMAIN wf : UploadDone(k)
    \/ BatchSettles
    \/ CheckpointWritten
    \/ ErrorsWritten

\* video_sources.json with one entry or two, no checkpoint
LiveSources == {File(<<Entry(1, "cached")>>), File(<<Entry(1, "cached"), Entry(2, "cached")>>)}

InitLive == InitRun(LiveSources, {AbsentFile}, {AbsentFile}, MaxFaults)

\* every request, write and delay the run waits for returns; the token may
\* expire and the process may be killed, or not
SpecLive == InitLive /\ [][Next]_vars /\ WF_vars(RunStep)

(***************************************************************************)
(* Specifications of the pure functions: Init draws the argument, the one  *)
(* action applies the function.  The run does not take part.               *)
(***************************************************************************)
NoRun ==
    /\ videoSources = AbsentFile
    /\ checkpointFile = AbsentFile
    /\ errorsFile = AbsentFile
    /\ mainPc = "off"
    /\ exitCode = NoExit
    /\ pending = <<>>
    /\ batchStart = 0
    /\ completed = <<>>
    /\ errors = <<>>
    /\ successCount = 0
    /\ errorCount = 0
    /\ checkpointLock = FALSE
    /\ accessToken = 0
    /\ tokenRefreshPromise = NoPromise
    /\ outstanding = {}
    /\ credBody = {}
    /\ credReqs = 0
    /\ expiredUpTo = 0
    /\ wf = <<>>
    /\ budget = 0
    /\ loaded = <<>>
    /\ batchNo = 0
    /\ savedBatches = 0
    /\ succeeded = {}
    /\ started = <<>>
    /\ abortCause = NULL
    /\ refreshLog = <<>>
    /\ obs401 = <<>>

\* ---- rendition selection ----
Containers == {"MP4", "WEBM"}
Schemes == {"https://", "http://"}
Heights == {Missing, 480, 1080}

\* rendition lists: entry i has src <<scheme, i>>, so equal renditions at
\* different places stay distinguishable
RenditionLists ==
    UNION { { [i \in 1..n |-> [container |-> c[i], src |-> <<sch[i], i>>,
                               width |-> 640, height |-> h[i]]] :
                c \in [1..n -> Containers], sch \in [1..n -> Schemes],
                h \in [1..n -> Heights] } :
            n \in 0..MaxRenditions }

InitSelect == NoRun /\ input \in RenditionLists /\ output = NotYet /\ savers = <<>>

\* lines 157-169 of getFreshVideoUrl and getBestMp4Source on the same list
Select ==
    /\ ~output.done
    /\ output' = Computed([best |-> getBestMp4Source(input),
                           fresh |-> SelectSource(input)])
    /\ UNCHANGED <<runVars, input, savers>>

SpecSelect == InitSelect /\ [][Select]_vars

\* ---- missing report ----
\* the ids "1", "9" and "10" as code units
ReportIds == {<<49>>, <<57>>, <<49, 48>>}

ReportSources ==
    SeqsUpTo({Entry(id, url) : id \in ReportIds, url \in {NULL, "cached"}}, MaxReport)

ReportErrorFiles ==
    {AbsentFile, CorruptFile} \cup
    { File(e) : e \in SeqsUpTo({[videoId |-> id, error |-> NoSourceText] :
                                  id \in ReportIds}, MaxReport) }

InitMissing ==
    /\ NoRun
    /\ input \in [sources : ReportSources, errorFile : ReportErrorFiles]
    /\ output = NotYet
    /\ savers = <<>>

\* extract-missing.ts, lines 11-31
Extract ==
    /\ ~output.done
    /\ output' = Computed(ExtractMissing(input.sources, input.errorFile))
    /\ UNCHANGED <<runVars, input, savers>>

SpecMissing == InitMissing /\ [][Extract]_vars

\* ---- transfer classification ----
Statuses == {200, 204, 299, 300, 304, 400, 401, 403, 404, 500, 503}
Bodies == {<<>>, AccessDeniedText}

\* messages of thrown errors: with one of the two texts as a word, at the end
\* of a sentence, inside a longer word, in another case, or without them
TokenHasExpiredText ==
    <<"T", "h", "e", " ", "p", "r", "o", "v", "i", "d", "e", "d", " ", "t",
      "o", "k", "e", "n", " ", "h", "a", "s", " ", "e", "x", "p", "i", "r",
      "e", "d", ".">>
UnauthorizedOperationText ==
    <<"U", "n", "a", "u", "t", "h", "o", "r", "i", "z", "e", "d", "O", "p",
      "e", "r", "a", "t", "i", "o", "n">>
LinkUnexpiredText ==
    <<"l", "i", "n", "k", " ", "u", "n", "e", "x", "p", "i", "r", "e", "d">>
TokenExpiredCapitalText ==
    <<"T", "o", "k", "e", "n", " ", "E", "x", "p", "i", "r", "e", "d">>
UnauthorizedLowerText ==
    <<"u", "n", "a", "u", "t", "h", "o", "r", "i", "z", "e", "d", " ", "c",
      "l", "i", "e", "n", "t">>
Messages ==
    { SocketHangUpText, RequestExpiredText, UnauthorizedText, TokenHasExpiredText,
      UnauthorizedOperationText, LinkUnexpiredText, TokenExpiredCapitalText,
      UnauthorizedLowerText, <<>> }

StatusTexts == {NoStatusText, NotFoundText}

AllTransferOutcomes ==
    { TransferOutcome(f, st, stt, t, b, u, m) :
        f \in {"response", "throw"}, st \in Statuses, stt \in StatusTexts,
        t \in {"ok", "throw"}, b \in Bodies, u \in {"ok", "throw"}, m \in Messages }

InitTransfer == NoRun /\ input \in AllTransferOutcomes /\ output = NotYet /\ savers = <<>>

\* uploadVideoToS3 with the environment doing input
Transfer ==
    /\ ~output.done
    /\ output' = Computed(uploadVideoToS3(input))
    /\ UNCHANGED <<runVars, input, savers>>

SpecTransfer == InitTransfer /\ [][Transfer]_vars

\* ---- saveCheckpoint called by several callers at once ----
\* what the calls leave alone
unsavedVars == <<videoSources, errorsFile, mainPc, exitCode, pending, batchStart,
                 foldVars, tokenVars, expiredUpTo, wf, budget, loaded, batchNo,
                 savedBatches, succeeded, started, abortCause, logVars, input, output>>

\* the completed sets the callers pass
SaveArguments == {Ascending(S) : S \in SUBSET (1..MaxSavers)}

\* a call of saveCheckpoint(completed) that has not run yet; waited tells
\* whether it has found the lock held
SaveCall(done) == [pc |-> "called", completed |-> done, waited |-> FALSE]

InitSave ==
    /\ NoRun
    /\ input = <<>>
    /\ output = NotYet
    /\ savers \in UNION { [1..n -> {SaveCall(done) : done \in SaveArguments}] :
                          n \in 1..MaxSavers }

\* lines 204-207: the call starts, or its timer of line 205 fires; it tests
\* the lock and, with no await in between, takes it and starts the write
SaveEnters(c) ==
    /\ savers[c].pc \in {"called", "waiting"}
    /\ IF LockFree(checkpointLock)
       THEN /\ checkpointLock' = TRUE
            /\ savers' = [savers EXCEPT ![c].pc = "writing"]
       ELSE /\ checkpointLock' = checkpointLock
            /\ savers' = [savers EXCEPT ![c].pc = "waiting", ![c].waited = TRUE]
    /\ UNCHANGED <<checkpointFile, unsavedVars>>

\* lines 208-215: Bun.write returns or throws; the finally block runs
SaveWritten(c) ==
    /\ savers[c].pc = "writing"
    /\ checkpointLock' = FALSE
    /\ \E done \in BOOLEAN :
        IF done
        THEN /\ checkpointFile' = CheckpointContentOf(savers[c].completed)
             /\ savers' = [savers EXCEPT ![c].pc = "returned"]
        ELSE /\ checkpointFile' \in TornWrites(checkpointFile)
             /\ savers' = [savers EXCEPT ![c].pc = "threw"]
    /\ UNCHANGED unsavedVars

NextSave ==
    \/ \E c \in DOMAIN savers : SaveEnters(c)
    \/ \E c \in DOMAIN savers : SaveWritten(c)

SpecSave == InitSave /\ [][NextSave]_vars

(***************************************************************************)
(* Properties                                                              *)
(***************************************************************************)

\* ---- C1 ----
\* the ids video_sources.json lists
InputIds == {videoSources.data[i].videoId : i \in 1..Len(videoSources.data)}

\* C1: idempotent resume.  uploadWithRetry is called, and a workflow runs, only
\* for ids that were not in the completed set returned by loadCheckpoint; when
\* that set holds every id of the input, no workflow is started at all.
C1_IdempotentResume ==
    /\ \A i \in 1..Len(started) : started[i] \notin Range(loaded)
    /\ \A k \in DOMAIN wf : wf[k].videoId \notin Range(loaded)
    /\ (mainPc \in {"batch", "saving", "done", "aborted"} /\ InputIds \subseteq Range(loaded))
          => started = <<>> /\ wf = <<>>

\* checkpoint {1}, input 1 and 2 both with a URL: the finished run worked on 2 only
C1_Witness ==
    /\ mainPc = "done"
    /\ loaded = <<1>>
    /\ Len(videoSources.data) = 2
    /\ \A i \in 1..2 : videoSources.data[i] = Entry(i, "cached")
    /\ started = <<2>>

\* ---- C2 ----
\* the workflows started and not yet settled
UnsettledNow == {k \in DOMAIN wf : wf[k].pc \in Unsettled}

\* C2: bounded concurrency.  At most CONCURRENCY workflows are started and not
\* yet settled, however many items are pending.
C2_BoundedConcurrency == Cardinality(UnsettledNow) <= CONCURRENCY

\* more than CONCURRENCY items pending, CONCURRENCY workflows under way
C2_Witness ==
    /\ Len(pending) > CONCURRENCY
    /\ Cardinality(UnsettledNow) = CONCURRENCY

\* ---- C3 ----
\* C3 as stated: the workflows that observed a 401 for the same expired token
\* all continue with the token of one credential request.
C3_OneRequestPerExpiredToken ==
    \A k, l \in DOMAIN wf :
        (/\ wf[k].pc = "refetch" /\ wf[l].pc = "refetch"
         /\ wf[k].saw401 = wf[l].saw401)
        => wf[k].tok = wf[l].tok

\* C3 amended: single-flight refresh.  At most one credential request is
\* outstanding; a workflow that observes a 401 while it is outstanding sends none
\* and waits for it; all workflows that waited for a request continue with the
\* token it returned, which is newer than the token that got the 401.  A
\* workflow whose 401 arrives after the request was answered sends a further
\* request: there are never more requests than 401s observed.
C3_SingleFlight ==
    /\ Cardinality(outstanding) <= 1
    /\ \A k \in DOMAIN wf :
        /\ (mainPc = "batch" /\ wf[k].pc = "token") => wf[k].awaits \in outstanding
        /\ wf[k].pc = "refetch" =>
              /\ wf[k].tok = wf[k].awaits
              /\ wf[k].tok > wf[k].saw401
    /\ \A r \in outstanding :
          mainPc = "batch" =>
              Cardinality({k \in DOMAIN wf : wf[k].pc = "token" /\ wf[k].awaits = r
                                             /\ wf[k].owner}) = 1
    /\ Len(refreshLog) <= Len(obs401)
    /\ Range(refreshLog) \subseteq Range(obs401)
    /\ credReqs \in {0, 1 + Len(refreshLog)}

\* two workflows got a 401 for the same token while one request was outstanding
\* and both continue with the token of that one request
C3_Witness ==
    /\ credReqs = 2
    /\ Len(obs401) = 2
    /\ \E k, l \in DOMAIN wf :
        /\ k # l
        /\ wf[k].pc = "refetch" /\ wf[l].pc = "refetch"
        /\ wf[k].saw401 = 1 /\ wf[l].saw401 = 1
        /\ wf[k].tok = 2 /\ wf[l].tok = 2

\* ---- C4 ----
\* no checkpoint write is under way and none has failed
BetweenWrites == ~checkpointLock /\ abortCause # "save"

\* C4: checkpoint durability.  Once the write after batch N has finished and
\* until the write after batch N+1 starts (a crash in between included), the
\* checkpoint file holds exactly the loaded set plus the ids that succeeded in
\* batches 1..N, each once.
C4_CheckpointDurability ==
    (savedBatches >= 1 /\ BetweenWrites) =>
        /\ checkpointFile.state = "ok"
        /\ Range(checkpointFile.data) = Range(loaded) \cup succeeded
        /\ Len(checkpointFile.data) = Cardinality(Range(loaded) \cup succeeded)

\* a crash during batch 2, after the write of batch 1 in which one item failed
C4_Witness ==
    /\ mainPc = "crashed"
    /\ savedBatches = 1
    /\ batchNo = 2
    /\ BetweenWrites
    /\ Cardinality(succeeded) = CONCURRENCY - 1

\* ---- C5 ----
\* part occurs in text: from some place on, text reads as part
Contains(text, part) ==
    \E i \in 0..Len(text) :
        /\ i + Len(part) <= Len(text)
        /\ \A n \in 1..Len(part) : text[i + n] = part[n]

HasExpiryWord(msg) == Contains(msg, ExpiredText) \/ Contains(msg, UnauthorizedText)

\* the messages of a failure for which a fresh URL is the remedy
IsExpiryError(error) ==
    \/ HasExpiryWord(error)
    \/ \E st \in {401, 403} : error = CdnUrlExpiredText \o Digits(st)
    \/ error = AccessDeniedText

\* C5: URL-expiry retry ceiling.  A workflow never makes more than
\* DefaultMaxRetries + 1 resolves or transfers; one whose transfers all report
\* needsRetry makes exactly that many of each, then settles as a failure with
\* the message of the expiry, and makes no further attempt.
C5_ExpiryRetryCeiling ==
    \A k \in DOMAIN wf :
        LET w == wf[k] IN
        /\ w.transfers <= DefaultMaxRetries + 1
        /\ w.resolves <= DefaultMaxRetries + 1
        /\ w.transfers = DefaultMaxRetries + 1 => w.pc = "settled"
        /\ (w.pc = "settled" /\ w.result.needsRetry) =>
              /\ w.transfers = DefaultMaxRetries + 1
              /\ w.resolves = DefaultMaxRetries + 1
              /\ ~w.result.success
              /\ IsExpiryError(w.result.error)

\* a workflow settled after three transfers that all reported an expired URL
C5_Witness ==
    \E k \in DOMAIN wf :
        /\ wf[k].pc = "settled"
        /\ wf[k].result.needsRetry
        /\ wf[k].transfers = 3
        /\ wf[k].resolves = 3

\* ---- C6 ----
\* C6: at the end of a run no id is both in completed and in the error list.
C6_CompletedErrorsDisjoint ==
    mainPc = "done" =>
        Range(completed) \cap {errors[i].videoId : i \in 1..Len(errors)} = {}

\* ---- C7 ----
\* C7: a per-item failure never aborts the run: main() rejects only for a fatal
\* condition (no startup token, unreadable input, failed checkpoint write), not
\* because the resolve of one item ran out of attempts.
C7_ItemFailureNeverAborts ==
    mainPc = "aborted" => abortCause \in {"token", "input", "save"}

\* ---- C8 ----
\* the places of the list that pass the filter: container MP4, URL on https://
Eligible(list) ==
    {i \in 1..Len(list) : list[i].container = "MP4" /\ list[i].src[1] = "https://"}

\* a missing height counts 0
HeightKey(r) == IF r.height = Missing THEN 0 ELSE r.height

\* C8: rendition selection.  For every rendition list the resolver returns the
\* entry of greatest height (a missing height counted 0) among the entries whose
\* container is MP4 and whose URL starts with https://, the earliest of them in
\* the list when several have that height, and null when no entry passes.
C8_RenditionSelection ==
    output.done =>
        LET elig == Eligible(input)
            best == output.value.best
            fresh == output.value.fresh
        IN  IF elig = {}
            THEN best = NoRendition /\ fresh = NotFound
            ELSE \E i \in elig :
                    /\ best = input[i]
                    /\ fresh.url = input[i].src
                    /\ \A j \in elig :
                        /\ HeightKey(input[j]) <= HeightKey(input[i])
                        /\ HeightKey(input[j]) = HeightKey(input[i]) => i <= j

\* a list where two eligible entries share the greatest height, an entry that is
\* not eligible is higher, and the earlier of the two was returned
C8_Witness ==
    /\ output.done
    /\ \E i, j \in Eligible(input) :
        /\ i < j
        /\ HeightKey(input[i]) = HeightKey(input[j])
        /\ \A e \in Eligible(input) : HeightKey(input[e]) <= HeightKey(input[i])
        /\ \E x \in (1..Len(input)) \ Eligible(input) :
              HeightKey(input[x]) > HeightKey(input[i])
        /\ output.value.best = input[i]

\* ---- C9 ----
RECURSIVE SplitLines(_, _)
\* the lines of a text: the runs of code units between newlines
SplitLines(text, line) ==
    IF text = <<>> THEN <<line>>
    ELSE IF text[1] = Newline THEN <<line>> \o SplitLines(Tail(text), <<>>)
    ELSE SplitLines(Tail(text), Append(line, text[1]))

\* the ids a report lists; the empty report lists none
ReportLines(text) == IF text = <<>> THEN <<>> ELSE SplitLines(text, <<>>)

\* a sorts before b as a string: at the first place they differ a has the
\* smaller code unit, or a ends there
SortsBefore(a, b) ==
    \E k \in 1..(Len(b)) :
        /\ \A m \in 1..(k - 1) : m <= Len(a) /\ a[m] = b[m]
        /\ (k > Len(a) \/ (k <= Len(a) /\ a[k] < b[k]))

\* the ids that have a null URL in video_sources or stand in the error file
ExpectedMissing(sources, errorFile) ==
    {sources[i].videoId : i \in {j \in 1..Len(sources) : sources[j].url = NULL}}
    \cup (IF errorFile.state = "ok"
          THEN {errorFile.data[i].videoId : i \in 1..Len(errorFile.data)}
          ELSE {})

\* C9: missing-report derivation.  For every video_sources list and every error
\* file (an absent file counted as empty) the report holds exactly the ids with
\* a null URL or an entry in the error file, each once, ascending as strings.
C9_MissingReport ==
    output.done =>
        LET lines == ReportLines(output.value)
            expected == ExpectedMissing(input.sources, input.errorFile)
        IN  /\ Range(lines) = expected
            /\ Len(lines) = Cardinality(expected)
            /\ \A i, j \in 1..Len(lines) : i < j => SortsBefore(lines[i], lines[j])

\* two null URLs of different ids, an error file with one id of its own and one
\* of those two: three ids are reported
C9_Witness ==
    /\ output.done
    /\ input.errorFile.state = "ok"
    /\ Cardinality({i \in 1..Len(input.sources) : input.sources[i].url = NULL}) = 2
    /\ Len(input.errorFile.data) = 2
    /\ Len(ReportLines(output.value)) = 3

\* ---- C10 ----
\* the source answered the fetch with a response (whatever became of its body)
Answered(o) == o.fetch = "response"

\* a thrown fetch or store error: fetch itself threw, or the store write threw
\* after a 2xx answer; an error while the body of a non-2xx answer is read is a
\* thrown error as well, of an answered fetch
Threw(o) ==
    \/ o.fetch = "throw"
    \/ Answered(o) /\ ~(o.status \in 200..299) /\ o.text = "throw"
    \/ Answered(o) /\ o.status \in 200..299 /\ o.upload = "throw"

\* C10: transfer failure classification.  A transfer returns needsRetry = true
\* exactly when the source fetch answers 401 or 403, or a thrown fetch/store
\* error has a message containing "expired" or "Unauthorized"; every other
\* non-2xx answer and every other thrown error is a failure without needsRetry;
\* the transfer succeeds exactly when the source answers 2xx and the store write
\* does not throw, and it always returns a result.
C10_TransferClassification ==
    output.done =>
        LET o == input
            r == output.value
        IN  /\ DOMAIN r = {"success", "error", "needsRetry"}
            /\ r.success \in BOOLEAN /\ r.needsRetry \in BOOLEAN
            /\ r.success = (~Threw(o) /\ o.status \in 200..299)
            /\ r.needsRetry =
                 (\/ Answered(o) /\ o.status \in {401, 403}
                  \/ Threw(o) /\ (Contains(o.msg, ExpiredText) \/ Contains(o.msg, UnauthorizedText)))
            /\ r.needsRetry => ~r.success

\* ---- C11 ----
\* C11: NotFound is terminal.  A workflow one of whose resolves returned null is
\* settled as a failure with the no-source message; it started no transfer for
\* that attempt (one transfer for each earlier attempt only) and made no resolve
\* after it, whatever is left of maxRetries.
C11_NotFoundTerminal ==
    \A k \in DOMAIN wf :
        LET w == wf[k] IN
        w.gotNotFound =>
            /\ w.pc = "settled"
            /\ w.result = NoSourceResult
            /\ ~w.result.success /\ ~w.result.needsRetry
            /\ w.transfers = w.attempt
            /\ w.resolves = w.attempt + 1

\* the second resolve of a workflow returned null after an expired first
\* transfer, with one retry still left
C11_Witness ==
    \E k \in DOMAIN wf :
        /\ wf[k].gotNotFound
        /\ wf[k].pc = "settled"
        /\ wf[k].attempt = 1
        /\ wf[k].attempt < DefaultMaxRetries
        /\ wf[k].transfers = 1

\* ---- C12 ----
\* C12: the checkpoint file is never made invalid.  Whatever step changes
\* upload_checkpoint.json, a crash between the start and the finish of a save
\* included, leaves the complete new checkpoint {completed: [...]}; any other
\* step leaves the previous file as it was.
C12_CheckpointNeverInvalid ==
    [][checkpointFile' # checkpointFile =>
          checkpointFile' = CheckpointContentOf(completed)]_vars

\* ---- C13 ----
\* main() has got past loadCheckpoint and has not yet written the checkpoint:
\* upload_checkpoint.json is still the file loadCheckpoint read
AfterLoadBeforeSave == mainPc \in {"batch", "saving", "done"} /\ savedBatches = 0

\* C13: checkpoint load never fails the run.  With upload_checkpoint.json absent
\* or not parsable, loadCheckpoint returns the empty set, pending is exactly the
\* entries of video_sources.json with a non-null URL, in order, and the run goes
\* on to the batches: main() rejects at the load step only when
\* video_sources.json itself cannot be read.
C13_LoadNeverFails ==
    /\ (AfterLoadBeforeSave /\ checkpointFile.state # "ok") =>
          /\ loaded = <<>>
          /\ pending = SelectSeq(videoSources.data, HasUrl)
          /\ (pending # <<>> => mainPc # "done")
    /\ abortCause = "input" => videoSources.state # "ok"

\* an unparsable checkpoint file, two entries with a URL: both are pending and
\* the first batch is under way
C13_Witness ==
    /\ mainPc = "batch"
    /\ savedBatches = 0
    /\ checkpointFile = CorruptFile
    /\ Len(videoSources.data) = 2
    /\ Len(pending) = 2
    /\ Len(wf) = 2

\* ---- C14 ----
\* what makes main() reject: the fatal conditions and the exceptions that escape
FatalCauses == {"token", "input", "resolve", "refresh", "save", "report"}

\* C14: exit codes.  The process ends with 0 exactly when main() has returned,
\* which it does only after every pending item was handed to a batch and every
\* outcome folded in, whatever the error list holds; it ends with 1 exactly when
\* main() rejected, for one of the fatal causes, or an exception outside main()
\* reached the handlers.
C14_ExitCodes ==
    /\ exitCode \in {NoExit, 0, 1}
    /\ (exitCode = 0) = (mainPc = "done")
    /\ (exitCode = 1) = (mainPc \in {"aborted", "faulted"})
    /\ mainPc = "done" =>
          /\ abortCause = NULL
          /\ Len(started) = Len(pending)
          /\ successCount + errorCount = Len(pending)
          /\ Len(errors) = errorCount
    /\ mainPc = "aborted" => abortCause \in FatalCauses
    /\ (abortCause # NULL) => mainPc = "aborted"

\* a finished run with a failed item: exit code 0, the error list not empty
C14_Witness ==
    /\ mainPc = "done"
    /\ exitCode = 0
    /\ Len(errors) > 0
    /\ successCount > 0

\* ---- C15 ----
\* C15: AuthError handling.  A non-2xx answer to the startup token request
\* aborts the run before any workflow is started and before any checkpoint
\* write; a non-2xx answer to a refresh during a run never aborts it: main()
\* does not reject because of it.
C15_AuthErrorHandling ==
    /\ abortCause = "token" =>
          /\ mainPc = "aborted"
          /\ started = <<>> /\ batchNo = 0
          /\ savedBatches = 0 /\ ~checkpointLock
    /\ abortCause # "refresh"

\* ---- C16 ----
\* the error list holds one record for every workflow of this run that did not
\* succeed, under the id it was started with
OneRecordPerFailure ==
    /\ Len(errors) = errorCount
    /\ Len(errors) + successCount = Len(started)
    /\ \A i \in 1..Len(errors) :
          /\ errors[i].videoId \in Range(started)
          /\ errors[i].error # <<>>

\* C16: error report.  upload_errors.json changes only in the step that ends the
\* run (so at most once), after the checkpoint write of the last batch has
\* finished, and only when the error list is not empty; when main() returns the
\* file then holds exactly the error list, one record per failed item of this
\* run.  With an empty error list no step changes the file.
C16_ErrorReport ==
    [][/\ errorsFile' # errorsFile =>
            /\ mainPc = "reporting"
            /\ mainPc' \in {"done", "aborted"} \cup Stopped
            /\ Len(errors) > 0
            /\ ~checkpointLock
            /\ savedBatches = batchNo
            /\ batchStart + CONCURRENCY >= Len(pending)
            /\ mainPc' = "done" => errorsFile' = File(errors)
       /\ (mainPc' = "done" /\ mainPc # "done") =>
            /\ OneRecordPerFailure
            /\ errorsFile' = IF Len(errors) > 0 THEN File(errors) ELSE errorsFile
      ]_vars

\* two batches, an item of the first failed: the report is written after the
\* checkpoint write of the second batch and holds that one record
C16_Witness ==
    /\ mainPc = "done"
    /\ batchNo = 2
    /\ savedBatches = 2
    /\ Len(errors) = 1
    /\ errors[1].videoId <= CONCURRENCY
    /\ errorsFile = File(errors)

\* ---- C17 ----
\* the message of the error upload.done() throws in the run, which has none of
\* the texts of an expiry
StoreWriteMessage == SocketHangUpText

\* C17: StoreWriteError handling.  A failed write to the destination store
\* whose message does not tell an expiry is retried: no workflow settles as a
\* failure with that message after a single transfer.
C17_StoreWriteRetried ==
    \A k \in DOMAIN wf :
        (/\ wf[k].pc = "settled"
         /\ ~IsExpiryMessage(StoreWriteMessage)
         /\ wf[k].result.error = StoreWriteMessage)
        => wf[k].transfers > 1

\* ---- C18 ----
\* the ids of the workflows of the batch under way
BatchIds == [k \in DOMAIN wf |-> wf[k].videoId]

\* C18: batch barrier.  The checkpoint write of a batch starts only in a step in
\* which every workflow of the batch is settled, and with all their outcomes
\* folded in; the workflows of the next batch start only in the step in which
\* that write finishes.  While workflows run, every earlier batch has its
\* checkpoint written and no write is under way, and the workflows under way
\* are those of one slice of pending.
C18_BatchBarrier ==
    [][/\ (~checkpointLock /\ checkpointLock') =>
            /\ mainPc = "batch" /\ mainPc' = "saving"
            /\ \A k \in DOMAIN wf : wf[k].pc = "settled"
            /\ successCount' + errorCount' = Len(started)
       /\ (mainPc' = "batch" /\ started' # started) =>
            /\ \A k \in DOMAIN wf : wf[k].pc = "settled"
            /\ ~checkpointLock'
            /\ batchNo >= 1 =>
                  /\ mainPc = "saving"
                  /\ savedBatches' = savedBatches + 1
                  /\ checkpointFile' = CheckpointContentOf(completed)
                  /\ successCount + errorCount = Len(started)
       /\ mainPc' = "batch" =>
            /\ savedBatches' = batchNo' - 1
            /\ ~checkpointLock'
            /\ Len(started') = batchStart' + Len(wf')
            /\ successCount' + errorCount' = batchStart'
            /\ \A k \in DOMAIN wf' : wf'[k].videoId = pending'[batchStart' + k].videoId
      ]_vars

\* the second batch is under way: the first one is folded in and its checkpoint
\* is on disk
C18_Witness ==
    /\ mainPc = "batch"
    /\ batchNo = 2
    /\ savedBatches = 1
    /\ \E k \in DOMAIN wf : wf[k].pc \in Unsettled
    /\ Len(started) = CONCURRENCY + 1
    /\ successCount + errorCount = CONCURRENCY
    /\ checkpointFile = CheckpointContentOf(completed)

\* ---- C19 ----
\* a step of the batch under way
BatchStep == mainPc = "batch" /\ mainPc' = "batch" /\ started' = started

\* C19: resolver 401 handling.  A 401 to the first metadata request of an
\* attempt makes the workflow wait for one credential request; when that is
\* answered it repeats the metadata request once, with the new token, and the
\* attempt counters are as before.  The answer to the repeated request never
\* leads to a credential request or a wait for one, and never to another repeat:
\* a 401 to it ends the resolve with null, and the reading of its body, when it
\* is ok, sends nothing.
C19_Resolver401 ==
    [][BatchStep =>
        \A k \in DOMAIN wf :
          LET w == wf[k]
              v == wf'[k]
              sameCounters == /\ v.attempt = w.attempt /\ v.rattempt = w.rattempt
                              /\ v.resolves = w.resolves /\ v.transfers = w.transfers
          IN  /\ (w.pc # "token" /\ v.pc = "token") =>
                    /\ w.pc = "fetch"
                    /\ sameCounters
                    /\ v.saw401 = w.tok
                    /\ v.awaits \in outstanding'
                    /\ credReqs' \in {credReqs, credReqs + 1}
              /\ (w.pc # "refetch" /\ v.pc = "refetch") =>
                    /\ w.pc = "token"
                    /\ sameCounters
                    /\ v.tok = accessToken' /\ v.tok = w.awaits
                    /\ v.tok > w.saw401
              /\ (w.pc = "refetch" /\ v # w) =>
                    /\ v.pc \in {"settled", "body", "delay"}
                    /\ credReqs' = credReqs /\ outstanding' = outstanding
                    /\ w.tok <= expiredUpTo =>
                          \/ v.pc = "delay"
                          \/ v.pc = "settled" /\ v.gotNotFound /\ v.result = NoSourceResult
              /\ (w.pc = "body" /\ v # w) =>
                    /\ v.pc \in {"settled", "transfer", "delay"}
                    /\ credReqs' = credReqs /\ outstanding' = outstanding
      ]_vars

\* in its second attempt a resolve got a 401, waited for the refresh and has
\* repeated the request with the new token, which has expired as well: the
\* answer will be a 401 again
C19_Witness ==
    \E k \in DOMAIN wf :
        /\ wf[k].pc = "refetch"
        /\ wf[k].rattempt = 1
        /\ wf[k].saw401 = 1
        /\ wf[k].tok = 2
        /\ wf[k].tok <= expiredUpTo

\* ---- C20 ----
\* the delays before attempts 1..n of a resolve, in milliseconds: 2 s, 4 s, ...
LinearWaits(n) == [i \in 1..n |-> i * 2000]

\* C20: connection-error backoff.  A resolve makes at most DefaultRetries
\* attempts; before attempt n (counted from 0) it has waited 2 s, 4 s, ...,
\* n * 2 s, one wait after every failed attempt but the last.  When the last
\* attempt fails the error goes to the caller at once: main() rejects with the
\* resolve at its attempt DefaultRetries - 1 and not in a wait, after exactly
\* DefaultRetries - 1 waits.
C20_ConnectionBackoff ==
    /\ \A k \in DOMAIN wf :
          LET w == wf[k] IN
          /\ w.rattempt <= DefaultRetries - 1
          /\ w.pc \in {"fetch", "token", "refetch", "body"} =>
                w.waits = LinearWaits(w.rattempt)
          /\ w.pc = "delay" =>
                /\ w.rattempt < DefaultRetries - 1
                /\ w.waits = LinearWaits(w.rattempt + 1)
    /\ abortCause \in {"resolve", "refresh"} =>
          \E k \in DOMAIN wf :
              /\ wf[k].rattempt = DefaultRetries - 1
              /\ wf[k].pc \in {"fetch", "token", "refetch", "body"}
              /\ wf[k].waits = LinearWaits(DefaultRetries - 1)

\* three connection errors in one resolve: waits of 2 s and 4 s, then the error
\* reached main()
C20_Witness ==
    /\ abortCause = "resolve"
    /\ \E k \in DOMAIN wf :
          /\ wf[k].pc = "fetch"
          /\ wf[k].rattempt = 2
          /\ wf[k].waits = <<2000, 4000>>

\* ---- C21 ----
\* the workflows suspended in getAccessToken on credential request r
WaitersOf(r) == {k \in DOMAIN wf : wf[k].pc = "token" /\ wf[k].awaits = r}

\* C21: at most one refresh in flight.  At most one credential request is
\* outstanding, and it is the one tokenRefreshPromise stands for.  A call of
\* getAccessToken made while a request is outstanding sends none and waits for
\* that one; when the request is answered every caller waiting for it gets its
\* result: all of them the new token, or all of them the error.
C21_OneRefreshInFlight ==
    [][/\ Cardinality(outstanding') <= 1
       /\ outstanding' = IF tokenRefreshPromise' = NoPromise THEN {}
                         ELSE {tokenRefreshPromise'}
       /\ (mainPc = "batch" /\ mainPc' = "batch") =>
            \A k \in DOMAIN wf :
                (wf[k].pc = "fetch" /\ wf'[k].pc = "token" /\ outstanding # {}) =>
                    /\ credReqs' = credReqs
                    /\ outstanding' = outstanding
                    /\ wf'[k].awaits \in outstanding
                    /\ ~wf'[k].owner
       /\ mainPc = "batch" =>
            \A r \in outstanding \ outstanding' :
                \/ mainPc' \in Stopped
                \/ /\ accessToken' = r
                   /\ \A k \in WaitersOf(r) : wf'[k].pc = "refetch" /\ wf'[k].tok = r
                \/ /\ accessToken' = accessToken
                   /\ \/ mainPc' = "aborted" /\ abortCause' = "refresh"
                      \/ \A k \in WaitersOf(r) : wf'[k].pc = "delay"
      ]_vars

\* two workflows wait for the same credential request, which only one of them
\* sent
C21_Witness ==
    \E r \in outstanding :
        /\ Cardinality(WaitersOf(r)) = 2
        /\ \E k, l \in WaitersOf(r) : wf[k].owner /\ ~wf[l].owner
        /\ credReqs = 2

\* ---- C22 ----
\* the url the metadata endpoint returned to resolve number n of the workflow
\* in slot k: the one rendition of the answer that is MP4 on https
ResolvedUrl(k, n) == <<"https://", wf[k].videoId, <<k, n>>>>

\* the transfers made or under way in the batch, as <<slot, number>>
TransfersMade == {<<k, i>> : k \in DOMAIN wf, i \in 1..CONCURRENCY} \cap
                 UNION {{<<k, i>> : i \in 1..Len(wf[k].used)} : k \in DOMAIN wf}

\* C22: fresh URL per transfer.  Transfer number i of a workflow is handed the
\* url that resolve number i of the same workflow returned, the resolve of the
\* same pass of the loop; so it is never the url of video_sources.json, and no
\* two transfers, of one workflow or of two, are handed the same url.
C22_FreshUrlPerTransfer ==
    /\ \A k \in DOMAIN wf :
          LET w == wf[k] IN
          /\ Len(w.used) = w.transfers + (IF w.pc = "transfer" THEN 1 ELSE 0)
          /\ \A i \in 1..Len(w.used) : w.used[i] = ResolvedUrl(k, i)
          /\ w.pc = "transfer" =>
                /\ w.url = ResolvedUrl(k, w.resolves)
                /\ w.resolves = w.attempt + 1
                /\ w.transfers = w.attempt
    /\ \A a, b \in TransfersMade :
          a # b => wf[a[1]].used[a[2]] # wf[b[1]].used[b[2]]

\* two entries with the same id run in one batch; one of them is in its second
\* transfer, with the url of its second resolve
C22_Witness ==
    /\ Len(wf) = 2
    /\ wf[1].videoId = wf[2].videoId
    /\ Len(wf[1].used) >= 1
    /\ wf[2].pc = "transfer"
    /\ wf[2].attempt = 1
    /\ Len(wf[2].used) = 2

\* ---- C23 ----
\* the callers that hold the lock: between line 207 and the finally of line 214
Writers == {c \in DOMAIN savers : savers[c].pc = "writing"}

\* C23: checkpoint save mutual exclusion.  At most one saveCheckpoint call is
\* between taking and releasing the lock, and the lock is held exactly then; a
\* call that finds the lock held waits; a call starts its write only when no
\* call is writing; the file changes only by the write of the holder; and the
\* lock is free after the write, whether it returned or threw.
C23_SaveMutualExclusion ==
    [][ /\ Cardinality(Writers') <= 1
        /\ checkpointLock' <=> Writers' # {}
        /\ \A c \in DOMAIN savers :
              /\ (checkpointLock /\ savers[c].pc \in {"called", "waiting"}) =>
                    savers'[c].pc \in {savers[c].pc, "waiting"}
              /\ (savers[c].pc # "writing" /\ savers'[c].pc = "writing") =>
                    /\ ~checkpointLock
                    /\ Writers = {}
              /\ (savers[c].pc = "writing" /\ savers'[c].pc # "writing") =>
                    /\ savers'[c].pc \in {"returned", "threw"}
                    /\ ~checkpointLock'
        /\ checkpointFile' # checkpointFile =>
              \E c \in Writers : savers'[c].pc \in {"returned", "threw"}
      ]_vars

\* a caller that had to wait is writing, after the write of the caller that
\* held the lock threw
C23_Witness ==
    \E c, d \in DOMAIN savers :
        /\ savers[c].pc = "threw"
        /\ savers[d].pc = "writing"
        /\ savers[d].waited
        /\ checkpointLock

\* ---- C24 ----
\* loadCheckpoint has returned (line 297)
HasLoaded == batchNo >= 1 \/ mainPc = "done"

\* the ids a run may hold as completed: loaded at start, or of a workflow of
\* this run whose result was a success
Earned == Range(loaded) \cup succeeded

\* the workflows of the batch that settled with the result of a transfer that
\* returned success
SucceededNow == {k \in DOMAIN wf : wf[k].pc = "settled" /\ wf[k].result.success}

\* C24: checkpoint contents are earned.  Every id of completed, and after the
\* load every id of a readable upload_checkpoint.json, was loaded at start or is
\* the id of a workflow that returned success; a workflow result becomes a
\* success only as the result of its transfer; completed loses no id while the
\* process lives, and the fold adds exactly the ids of the workflows that
\* returned success, none of a workflow that returned a failure.
C24_CheckpointEarned ==
    [][ /\ Range(completed') \subseteq Earned'
        /\ (HasLoaded' /\ checkpointFile'.state = "ok") =>
              Range(checkpointFile'.data) \subseteq Earned'
        /\ mainPc' \notin Stopped => Range(completed) \subseteq Range(completed')
        /\ (mainPc = "batch" /\ mainPc' = "batch" /\ batchNo' = batchNo) =>
              \A j \in DOMAIN wf :
                  (~wf[j].result.success /\ wf'[j].result.success) =>
                      wf[j].pc = "transfer" /\ wf'[j].pc = "settled"
        /\ (mainPc = "batch" /\ mainPc' = "saving") =>
              /\ Range(completed') =
                    Range(completed) \cup {wf[j].videoId : j \in SucceededNow}
              /\ succeeded' = succeeded \cup {wf[j].videoId : j \in SucceededNow}
      ]_vars

\* the checkpoint on disk holds an id that was loaded and an id whose transfer
\* succeeded in this run, and not the id of the workflow that failed
C24_Witness ==
    /\ mainPc = "done"
    /\ checkpointFile.state = "ok"
    /\ \E a \in Range(loaded), b \in succeeded \ Range(loaded) :
          {a, b} \subseteq Range(checkpointFile.data)
    /\ \E e \in Range(errors) :
          e.videoId \notin Range(checkpointFile.data) /\ e.videoId \notin succeeded

\* ---- C25 ----
\* C25: reactive refresh only.  Up to the load only the request of startup has
\* been sent.  After it a credential request is sent only in the step in which
\* a workflow gets 401 as the first answer of a metadata attempt, made with an
\* expired token: one request, awaited by that workflow, and no other workflow
\* moves.  The step that settles a transfer, whatever its outcome, the step
\* that ends a delay and the step that starts one send no request.
C25_ReactiveRefreshOnly ==
    [][ /\ mainPc' \in {"token", "load"} => credReqs' = 1
        /\ (credReqs' # credReqs /\ mainPc' \notin Stopped) =>
              /\ mainPc = "batch"
              /\ credReqs' = credReqs + 1
              /\ outstanding' = outstanding \cup {credReqs'}
              /\ \E k \in DOMAIN wf :
                    /\ wf[k].pc = "fetch"
                    /\ wf[k].tok <= expiredUpTo
                    /\ wf'[k].pc = "token"
                    /\ wf'[k].awaits = credReqs'
                    /\ wf'[k].owner
                    /\ obs401' = Append(obs401, wf[k].tok)
                    /\ refreshLog' = Append(refreshLog, wf[k].tok)
                    /\ \A j \in DOMAIN wf \ {k} : wf'[j] = wf[j]
        /\ (mainPc = "batch" /\ mainPc' = "batch" /\ batchNo' = batchNo) =>
              \A k \in DOMAIN wf :
                  (wf'[k] # wf[k] /\ (wf[k].pc \in {"transfer", "delay", "refetch"}
                                       \/ wf'[k].pc = "delay")) =>
                      credReqs' = credReqs /\ outstanding' \subseteq outstanding
      ]_vars

\* a workflow whose first transfer failed, with no request sent for it, got a
\* 401 in its next resolve and sent the one request after startup
C25_Witness ==
    /\ credReqs = 2
    /\ refreshLog = <<1>>
    /\ \E k \in DOMAIN wf :
          /\ wf[k].pc = "token"
          /\ wf[k].owner
          /\ wf[k].transfers = 1

\* ---- C26 ----
\* the step tested at line 153 a response to workflow k that was not ok
NotOkAnswered(k) ==
    /\ wf[k].pc \in {"fetch", "refetch"}
    /\ wf'[k].status # wf[k].status
    /\ ~Ok(wf'[k].status)

\* the records the fold appended to errors
NewErrors == SubSeq(errors', Len(errors) + 1, Len(errors'))

\* C26: non-2xx metadata response.  A response that is not 2xx and is either
\* not 401 or the answer to the request repeated after the refresh ends the
\* resolve with null: in that step the workflow returns "No MP4 source
\* available", with no further getFreshVideoUrl call and no transfer started.
\* A workflow that saw such a response stays settled as a failure, and the fold
\* appends a record with its id to errors and adds nothing to completed for it.
C26_NotOkMetadataResponse ==
    [][ /\ (mainPc = "batch" /\ mainPc' = "batch" /\ batchNo' = batchNo) =>
              \A k \in DOMAIN wf :
                  NotOkAnswered(k) =>
                      /\ wf'[k].status = 401 => wf[k].pc = "refetch"
                      /\ wf'[k].pc = "settled"
                      /\ wf'[k].result = NoSourceResult
                      /\ wf'[k].gotNotFound
                      /\ wf'[k].resolves = wf[k].resolves
                      /\ wf'[k].transfers = wf[k].transfers
                      /\ wf'[k].used = wf[k].used
                      /\ wf'[k].url = <<>>
        /\ \A k \in DOMAIN wf' :
              (wf'[k].status # 0 /\ ~Ok(wf'[k].status)) =>
                  /\ wf'[k].pc = "settled"
                  /\ wf'[k].result = NoSourceResult
                  /\ Len(wf'[k].used) = wf'[k].transfers
        /\ (mainPc = "batch" /\ mainPc' = "saving") =>
              \A k \in DOMAIN wf :
                  (wf[k].status # 0 /\ ~Ok(wf[k].status)) =>
                      /\ [videoId |-> wf[k].videoId, error |-> NoSourceResult.error]
                            \in Range(NewErrors)
                      /\ Len(NewErrors) = Cardinality({j \in DOMAIN wf : ~wf[j].result.success})
                      /\ wf[k].videoId \in Range(completed') =>
                            \/ wf[k].videoId \in Range(completed)
                            \/ \E j \in DOMAIN wf \ {k} :
                                  /\ wf[j].videoId = wf[k].videoId
                                  /\ wf[j].result.success
      ]_vars

\* a workflow has ended its resolve on the 401 that answered the request it
\* repeated after the refresh: it made one resolve and no transfer
C26_Witness ==
    \E k \in DOMAIN wf :
        /\ wf[k].pc = "settled"
        /\ wf[k].status = 401
        /\ wf[k].result = NoSourceResult
        /\ wf[k].resolves = 1
        /\ wf[k].transfers = 0
        /\ credReqs = 2

\* ---- C27 ----
\* the ids of the entries of pending from place a to place b, in order
PendingIds(a, b) == [i \in 1..(b - a + 1) |-> pending[a + i - 1].videoId]

\* the last place of the window that starts after place i
WindowEnd(i) == Min({i + CONCURRENCY, Len(pending)})

\* C27: exactly-once scheduling.  Batch number n starts at place
\* (n - 1) * CONCURRENCY of pending and its workflows are, in order, those of
\* the next CONCURRENCY entries (fewer only at the end of the list); the calls
\* of uploadWithRetry made so far are, in order, one per entry of pending up to
\* the end of the window under way; and when the loop has ended every entry of
\* pending was started once and successCount + errorCount = pending.length.
C27_ExactlyOnceScheduling ==
    mainPc \in {"batch", "saving", "reporting", "done"} =>
        /\ batchNo = 0 => (pending = <<>> /\ started = <<>> /\ mainPc = "done")
        /\ batchNo >= 1 =>
              /\ batchStart = (batchNo - 1) * CONCURRENCY
              /\ batchStart < Len(pending)
              /\ started = PendingIds(1, WindowEnd(batchStart))
        /\ mainPc = "batch" =>
              /\ BatchIds = PendingIds(batchStart + 1, WindowEnd(batchStart))
              /\ Len(wf) = CONCURRENCY \/ batchStart + Len(wf) = Len(pending)
        /\ mainPc \in {"reporting", "done"} =>
              /\ Len(started) = Len(pending)
              /\ started = PendingIds(1, Len(pending))
              /\ successCount + errorCount = Len(pending)

\* a run of two batches has ended, with uploads that succeeded and one that
\* failed
C27_Witness ==
    /\ mainPc = "done"
    /\ batchNo = 2
    /\ Len(pending) = CONCURRENCY + 1
    /\ errorCount = 1
    /\ successCount = CONCURRENCY

\* ---- C28 ----
\* main() has returned or rejected, or the process ended under it
Ended == mainPc \in {"done", "aborted"} \cup Stopped

\* the loop counters of the workflows are within the bounds of their loops
WithinAttempts ==
    \A k \in DOMAIN wf :
        /\ wf[k].attempt <= DefaultMaxRetries
        /\ wf[k].resolves <= DefaultMaxRetries + 1
        /\ wf[k].transfers <= wf[k].resolves
        /\ wf[k].rattempt <= DefaultRetries - 1
        /\ Len(wf[k].waits) <= DefaultRetries - 1

\* C28: termination.  When every request, write and delay returns: a workflow
\* makes at most 3 passes of resolve then transfer, with at most 3 metadata
\* attempts in a resolve; the workflows of a batch all settle unless the run
\* ends first; a checkpoint write under way ends and frees the lock; and the
\* run ends.
C28_Termination ==
    /\ []WithinAttempts
    /\ (UnsettledNow # {}) ~> (UnsettledNow = {} \/ Ended)
    /\ (mainPc = "saving") ~> (mainPc # "saving" /\ (~checkpointLock \/ Ended))
    /\ <>Ended

\* the run has ended after a workflow whose three transfers all found the url
\* expired
C28_Witness ==
    /\ mainPc = "done"
    /\ \E e \in Range(errors) : e.error = CdnUrlExpiredText \o Digits(403)
    /\ ~checkpointLock

====
